---- MODULE Spec2Model ----
(***************************************************************************)
(* A model of src/src/lib.rs: ChainMap<K, V, S>, a Vec of HashMaps read in *)
(* precedence order (index 0 first).                                       *)
(*                                                                         *)
(* A HashMap<K, V> is a function from its stored (owned) keys to values.   *)
(* A lookup key is the borrowed form Q of a stored key (K: Borrow<Q>), so  *)
(* a stored key and a lookup key are different values related by Borrow.  *)
(* Option<T> is a tagged record, None or Some(v).                          *)
(***************************************************************************)
EXTENDS Integers, Sequences, FiniteSets, TLC

\* ------------------------------------------------------------- bounds

\* Most layers a chain holds in the model (push_map/extend are guarded by it).
MaxLayers == 3

\* Largest capacity hint given to with_capacity.
MaxCapacity == 2

\* ------------------------------------------------------------ domains

\* The lookup keys (Q), as the tests use them.
Keys == {"first", "second"}

\* The values (V).
Values == {1, 2}

\* The stored form (K) of a lookup key, and Borrow::borrow back from it.
Owned(q) == [owned |-> q]

Borrow(sk) == sk.owned

StoredKeys == {Owned(q) : q \in Keys}

\* Every HashMap<K, V> over the keys and values above.
Maps == UNION {[S -> Values] : S \in SUBSET StoredKeys}

\* Every sequence of maps of length 0..n.
RECURSIVE SeqsUpTo(_)
SeqsUpTo(n) ==
    IF n = 0 THEN {<<>>}
    ELSE LET shorter == SeqsUpTo(n - 1)
         IN  shorter \cup {Append(s, m) : s \in {t \in shorter : Len(t) = n - 1}, m \in Maps}

\* ------------------------------------------------------------- Option

None == [tag |-> "None"]

Some(v) == [tag |-> "Some", val |-> v]

Unit == [tag |-> "Unit"]

Bool(b) == [tag |-> "Bool", val |-> b]

Ref(v) == [tag |-> "Ref", val |-> v]

Panic(msg) == [tag |-> "Panic", msg |-> msg]

\* ------------------------------------------------- HashMap operations

\* HashMap::contains_key(k): some stored key borrows to k.
HashMap_contains_key(map, k) == \E sk \in DOMAIN map : Borrow(sk) = k

\* HashMap::get(k)
HashMap_get(map, k) ==
    IF \E sk \in DOMAIN map : Borrow(sk) = k
    THEN Some(map[CHOOSE sk \in DOMAIN map : Borrow(sk) = k])
    ELSE None

\* HashMap::get_key_value(k): the stored key and its value.
HashMap_get_key_value(map, k) ==
    IF \E sk \in DOMAIN map : Borrow(sk) = k
    THEN LET sk == CHOOSE x \in DOMAIN map : Borrow(x) = k IN Some(<<sk, map[sk]>>)
    ELSE None

\* HashMap's PartialEq: the same number of entries, and every entry of a is
\* an entry of b.
HashMap_eq(a, b) ==
    /\ Cardinality(DOMAIN a) = Cardinality(DOMAIN b)
    /\ \A sk \in DOMAIN a :
          LET r == HashMap_get(b, Borrow(sk)) IN r.tag = "Some" /\ r.val = a[sk]

\* ------------------------------------------------ ChainMap operations

\* Default::default(): ChainMap { inner: Vec::new() }
default == <<>>

\* ChainMap::new(): Self::default()
new == default

\* ChainMap::with_capacity(capacity): an empty Vec; the capacity is a
\* property of the allocation that no operation of the chain reads.
with_capacity(capacity) == <<>>

\* FromIterator::from_iter(iter): Vec::from_iter(iter), in the iterator's order.
from_iter(iter) == iter

\* ChainMap::push_map(map): self.inner.push(map)
push_map_front(self, map) == <<map>> \o self

push_map_before_last(self, map) ==
    IF self = <<>> THEN <<map>>
    ELSE SubSeq(self, 1, Len(self) - 1) \o <<map>> \o <<self[Len(self)]>>

push_map_replace_last(self, map) ==
    IF self = <<>> THEN <<map>>
    ELSE SubSeq(self, 1, Len(self) - 1) \o <<map>>

push_map(self, map) == Append(self, map)

\* Vec::extend(iter): the items of the iterator, in its order, after the
\* items the Vec already holds.
Vec_extend(vec, iter) == vec \o iter

RECURSIVE Reversed(_)
Reversed(s) == IF s = <<>> THEN <<>> ELSE Append(Reversed(Tail(s)), Head(s))

\* Extend::extend(iter): self.inner.extend(iter)
extend_reversed(self, iter) == Vec_extend(self, Reversed(iter))

extend_front(self, iter) == Vec_extend(iter, self)

extend(self, iter) == Vec_extend(self, iter)

\* self.inner.iter().any(|map| map.contains_key(k)): true at the first layer
\* that has the key, false when the iterator ends.
RECURSIVE iter_any_contains_key(_, _)
iter_any_contains_key(iter, k) ==
    IF iter = <<>> THEN FALSE
    ELSE IF HashMap_contains_key(Head(iter), k) THEN TRUE
    ELSE iter_any_contains_key(Tail(iter), k)

contains_key_first_only(self, k) ==
    self # <<>> /\ HashMap_contains_key(Head(self), k)

contains_key(self, k) == iter_any_contains_key(self, k)

\* self.inner.iter().find_map(|map| map.get(k)): the first Some.
RECURSIVE iter_find_map_get(_, _)
iter_find_map_get(iter, k) ==
    IF iter = <<>> THEN None
    ELSE LET r == HashMap_get(Head(iter), k)
         IN  IF r.tag = "Some" THEN r ELSE iter_find_map_get(Tail(iter), k)

get_last_wins(self, k) == iter_find_map_get(Reversed(self), k)

get(self, k) == iter_find_map_get(self, k)

\* self.inner.iter().find_map(|map| map.get_key_value(k))
RECURSIVE iter_find_map_get_key_value(_, _)
iter_find_map_get_key_value(iter, k) ==
    IF iter = <<>> THEN None
    ELSE LET r == HashMap_get_key_value(Head(iter), k)
         IN  IF r.tag = "Some" THEN r ELSE iter_find_map_get_key_value(Tail(iter), k)

get_key_value_last_wins(self, k) == iter_find_map_get_key_value(Reversed(self), k)

get_key_value(self, k) == iter_find_map_get_key_value(self, k)

\* Index::index(k): self.get(k).expect("no entry found for key")
index_or_sentinel(self, k) ==
    LET r == get(self, k) IN IF r.tag = "Some" THEN Ref(r.val) ELSE Ref(0)

index(self, k) ==
    LET r == get(self, k)
    IN  IF r.tag = "Some" THEN Ref(r.val) ELSE Panic("no entry found for key")

\* Vec's PartialEq: equal lengths, then element by element.
RECURSIVE slice_eq(_, _)
slice_eq(a, b) ==
    IF a = <<>> THEN TRUE
    ELSE HashMap_eq(Head(a), Head(b)) /\ slice_eq(Tail(a), Tail(b))

Vec_eq(a, b) == Len(a) = Len(b) /\ slice_eq(a, b)

\* PartialEq::eq(other): self.inner.eq(&other.inner)
eq_any_order(self, other) ==
    /\ Len(self) = Len(other)
    /\ \A i \in 1..Len(self) : \E j \in 1..Len(other) : HashMap_eq(self[i], other[j])
    /\ \A j \in 1..Len(other) : \E i \in 1..Len(self) : HashMap_eq(self[i], other[j])

eq(self, other) == Vec_eq(self, other)

\* -------------------------------------------------------------- state

VARIABLES
    pc,      \* "start" before a constructor ran, "ready", or "panicked"
    inner,   \* ChainMap.inner: the layers, highest precedence first
    op,      \* the operation that produced this state
    before,  \* inner as the last mutator found it (<<>> otherwise)
    arg,     \* the maps the last operation was given: push_map's map,
             \* extend's and from_iter's items, eq's other chain
    key,     \* the key of the last lookup (NoKey otherwise)
    hint,    \* the capacity the last with_capacity was given (0 otherwise)
    ret      \* what the last operation returned

vars == <<pc, inner, op, before, arg, key, hint, ret>>

NoKey == ""

Init ==
    /\ pc = "start"
    /\ inner = <<>>
    /\ op = "none"
    /\ before = <<>>
    /\ arg = <<>>
    /\ key = NoKey
    /\ hint = 0
    /\ ret = Unit

\* A constructor: the chain it makes, from the items it was given.
Construct(name, chain, items, capacity) ==
    /\ pc = "start"
    /\ pc' = "ready"
    /\ inner' = chain
    /\ op' = name
    /\ before' = <<>>
    /\ arg' = items
    /\ key' = NoKey
    /\ hint' = capacity
    /\ ret' = Unit

\* A mutator (&mut self): the chain it leaves, from the items it was given.
Mutate(name, chain, items) ==
    /\ pc = "ready"
    /\ Len(chain) <= MaxLayers
    /\ inner' = chain
    /\ op' = name
    /\ before' = inner
    /\ arg' = items
    /\ key' = NoKey
    /\ hint' = 0
    /\ ret' = Unit
    /\ UNCHANGED pc

\* A lookup (&self): what it returns for key k; a panic ends the run.
Lookup(name, k, result) ==
    /\ pc = "ready"
    /\ pc' = IF result.tag = "Panic" THEN "panicked" ELSE "ready"
    /\ op' = name
    /\ before' = <<>>
    /\ arg' = <<>>
    /\ key' = k
    /\ hint' = 0
    /\ ret' = result
    /\ UNCHANGED inner

New == Construct("new", new, <<>>, 0)

Default == Construct("default", default, <<>>, 0)

WithCapacity ==
    \E capacity \in 0..MaxCapacity :
        Construct("with_capacity", with_capacity(capacity), <<>>, capacity)

FromIter ==
    \E iter \in SeqsUpTo(MaxLayers) :
        Construct("from_iter", from_iter(iter), iter, 0)

PushMap ==
    \E map \in Maps : Mutate("push_map", push_map(inner, map), <<map>>)

Extend ==
    \E iter \in SeqsUpTo(MaxLayers - Len(inner)) :
        Mutate("extend", extend(inner, iter), iter)

ContainsKey ==
    \E k \in Keys : Lookup("contains_key", k, Bool(contains_key(inner, k)))

Get ==
    \E k \in Keys : Lookup("get", k, get(inner, k))

GetKeyValue ==
    \E k \in Keys : Lookup("get_key_value", k, get_key_value(inner, k))

Index ==
    \E k \in Keys : Lookup("index", k, index(inner, k))

\* The chains a chain is compared with: itself, itself with two layers
\* swapped, with its last layer dropped, with one more layer, and with one
\* entry of one layer removed, added or changed.
Swapped(self, i, j) == [self EXCEPT ![i] = self[j], ![j] = self[i]]

Without(map, sk) == [x \in DOMAIN map \ {sk} |-> map[x]]

With(map, sk, v) == [x \in DOMAIN map \cup {sk} |-> IF x = sk THEN v ELSE map[x]]

EntryEdits(map) ==
    ({Without(map, sk) : sk \in DOMAIN map}
        \cup {With(map, sk, v) : sk \in StoredKeys, v \in Values}) \ {map}

Comparands(self) ==
    {self}
    \cup {Swapped(self, i, j) : i \in 1..Len(self), j \in 1..Len(self)}
    \cup {SubSeq(self, 1, Len(self) - 1) : n \in {x \in {0} : self # <<>>}}
    \cup {Append(self, m) : m \in {x \in Maps : Len(self) < MaxLayers}}
    \cup UNION {{[self EXCEPT ![i] = m] : m \in EntryEdits(self[i])} : i \in 1..Len(self)}

Eq ==
    \E other \in Comparands(inner) :
        /\ pc = "ready"
        /\ op' = "eq"
        /\ before' = <<>>
        /\ arg' = other
        /\ key' = NoKey
        /\ hint' = 0
        /\ ret' = Bool(eq(inner, other))
        /\ UNCHANGED <<pc, inner>>

\* Constructors, mutators and lookups.
Next ==
    \/ New
    \/ Default
    \/ WithCapacity
    \/ FromIter
    \/ PushMap
    \/ Extend
    \/ ContainsKey
    \/ Get
    \/ GetKeyValue
    \/ Index

Spec == Init /\ [][Next]_vars

\* Constructors, mutators and the comparison of the chain with another one.
NextEq ==
    \/ New
    \/ Default
    \/ WithCapacity
    \/ FromIter
    \/ PushMap
    \/ Extend
    \/ Eq

SpecEq == Init /\ [][NextEq]_vars

\* ----------------------------------------------- what the claims read

\* The statements below describe the layers directly, as sets of positions,
\* and never through the scans of the operations above.

\* Layer `layer` holds lookup key k.
LayerHas(layer, k) == k \in {Borrow(sk) : sk \in DOMAIN layer}

\* The value layer `layer` holds for k.
LayerValue(layer, k) == layer[Owned(k)]

\* The positions of the layers of `chain` that hold k.
Holders(chain, k) == {i \in 1..Len(chain) : LayerHas(chain[i], k)}

Lowest(S) == CHOOSE i \in S : \A j \in S : i <= j

\* The value of the lowest-indexed layer that holds k, absent when none does.
PrecedenceValue(chain, k) ==
    IF Holders(chain, k) = {} THEN None
    ELSE Some(LayerValue(chain[Lowest(Holders(chain, k))], k))

\* push_map(m1); ...; push_map(mj) on chain.
RECURSIVE PushAll(_, _)
PushAll(chain, maps) ==
    IF maps = <<>> THEN chain
    ELSE PushAll(push_map(chain, Head(maps)), Tail(maps))

\* Some key is held by both maps.
SharesKey(m1, m2) == \E k \in Keys : LayerHas(m1, k) /\ LayerHas(m2, k)

\* Some lookup tells chain a from chain b.
LookupsDiffer(a, b) ==
    \E k \in Keys :
        \/ get(a, k) # get(b, k)
        \/ contains_key(a, k) # contains_key(b, k)
        \/ get_key_value(a, k) # get_key_value(b, k)

\* Some operation of the chain tells a from b.
ObservablyDifferent(a, b) == ~eq(a, b) \/ LookupsDiffer(a, b)

\* The spec's insert_map(index, map): map at position index (0-based), the
\* layers formerly at index and beyond one position further down.
InsertAt(chain, i, m) ==
    SubSeq(chain, 1, i) \o <<m>> \o SubSeq(chain, i + 1, Len(chain))

\* A step that changes the layers of a constructed chain.
Mutators == PushMap \/ Extend

\* ------------------------------------------------------------- claims

\* C1: a chain built by from_iter from L0, ..., Ln-1 holds the layers in that
\* order, and get(k) returns the value of the lowest-indexed layer holding k,
\* whatever the layers after it hold; it is absent exactly when no layer
\* holds k.
C1_PrecedenceLaw ==
    /\ op = "from_iter" =>
          /\ Len(inner) = Len(arg)
          /\ \A k \in Keys : get(inner, k) = PrecedenceValue(arg, k)
    /\ op = "get" =>
          /\ ret = PrecedenceValue(inner, key)
          /\ (ret = None) <=> (Holders(inner, key) = {})

\* get(k) on three layers where the second and the third hold k with
\* different values and the first does not.
C1_Witness ==
    /\ op = "get"
    /\ Len(inner) = 3
    /\ Holders(inner, key) = {2, 3}
    /\ LayerValue(inner[2], key) # LayerValue(inner[3], key)
    /\ ret = Some(LayerValue(inner[2], key))

\* C2: contains_key(k) is true exactly when some layer, at any position,
\* holds k; for a key no layer holds, contains_key is false and get is absent;
\* the chain of new(), default() and with_capacity(n) has no layer and
\* reports every key absent.
C2_MembershipLaw ==
    /\ op = "contains_key" => ret = Bool(Holders(inner, key) # {})
    /\ (op = "get" /\ Holders(inner, key) = {}) => ret = None
    /\ op \in {"new", "default", "with_capacity"} =>
          /\ inner = <<>>
          /\ \A k \in Keys : ~contains_key(inner, k) /\ get(inner, k) = None

\* contains_key(k) where only the last of three layers holds k.
C2_Witness ==
    /\ op = "contains_key"
    /\ Len(inner) = 3
    /\ Holders(inner, key) = {3}
    /\ ret = Bool(TRUE)

\* C3: push_map(m) on n layers leaves n+1 layers, the former ones at their
\* positions and m last; get(k) afterwards is get(k) before when that was
\* present, and m's value for k otherwise.
C3_PushMapFrame ==
    op = "push_map" =>
        /\ Len(inner) = Len(before) + 1
        /\ \A i \in 1..Len(before) : inner[i] = before[i]
        /\ inner[Len(before) + 1] = arg[1]
        /\ \A k \in Keys :
              get(inner, k) = IF get(before, k).tag = "Some"
                              THEN get(before, k)
                              ELSE HashMap_get(arg[1], k)

\* push_map(m) on two layers, m holding one key the chain lacked and one key
\* the chain held with another value.
C3_Witness ==
    /\ op = "push_map"
    /\ Len(before) = 2
    /\ \E k \in Keys : get(before, k) = None /\ LayerHas(arg[1], k)
    /\ \E k \in Keys :
          /\ Holders(before, k) # {}
          /\ LayerHas(arg[1], k)
          /\ get(before, k) # HashMap_get(arg[1], k)

\* C4: extend([m1, ..., mj]) leaves the chain that push_map(m1); ...;
\* push_map(mj) leaves, with the same lookups: the former layers untouched,
\* the new ones after them in the input's order.
C4_ExtendLaw ==
    op = "extend" =>
        /\ inner = PushAll(before, arg)
        /\ Len(inner) = Len(before) + Len(arg)
        /\ \A i \in 1..Len(before) : inner[i] = before[i]
        /\ \A i \in 1..Len(arg) : inner[Len(before) + i] = arg[i]
        /\ ~LookupsDiffer(inner, PushAll(before, arg))

\* extend with two different maps on a chain that has a layer.
C4_Witness ==
    /\ op = "extend"
    /\ Len(before) = 1
    /\ Len(arg) = 2
    /\ arg[1] # arg[2]
    /\ SharesKey(arg[1], arg[2])

\* C5: chain[k] returns the value get(k) returns when some layer holds k, and
\* panics when none does (the empty chain included); contains_key(k), get(k)
\* and get_key_value(k) never panic, and return false / absent for such a key.
C5_IndexLaw ==
    /\ op = "index" =>
          IF Holders(inner, key) # {}
          THEN pc = "ready" /\ ret = Ref(PrecedenceValue(inner, key).val)
                            /\ Some(ret.val) = get(inner, key)
          ELSE pc = "panicked" /\ ret.tag = "Panic"
    /\ op \in {"contains_key", "get", "get_key_value"} =>
          /\ pc = "ready"
          /\ ret.tag # "Panic"
    /\ (op = "contains_key" /\ Holders(inner, key) = {}) => ret = Bool(FALSE)
    /\ (op \in {"get", "get_key_value"} /\ Holders(inner, key) = {}) => ret = None

\* chain[k] has panicked on a chain whose layers hold other keys.
C5_Witness ==
    /\ op = "index"
    /\ pc = "panicked"
    /\ Len(inner) = 2
    /\ \E k \in Keys : Holders(inner, k) = {1, 2}

\* C6: two chains are equal exactly when they have the same number of layers
\* and equal layers at every position; a chain and the same layers with two
\* different ones swapped are not equal.
C6_EqualityLaw ==
    op = "eq" =>
        /\ ret = Bool(/\ Len(inner) = Len(arg)
                      /\ \A i \in 1..Len(inner) : inner[i] = arg[i])
        /\ \A i, j \in 1..Len(inner) :
              (arg = Swapped(inner, i, j) /\ inner[i] # inner[j]) => ret = Bool(FALSE)

\* Two chains of the same layers, two different ones swapped, that no lookup
\* tells apart, compared.
C6_Witness ==
    /\ op = "eq"
    /\ \E i, j \in 1..Len(inner) : arg = Swapped(inner, i, j) /\ inner[i] # inner[j]
    /\ ~LookupsDiffer(inner, arg)
    /\ ret = Bool(FALSE)

\* C7: get_key_value(k) returns the stored key and the value of the
\* lowest-indexed layer holding k; its value is get(k)'s; it is absent exactly
\* when get(k) is absent and contains_key(k) is false.
C7_GetKeyValueLaw ==
    op = "get_key_value" =>
        /\ IF Holders(inner, key) = {} THEN ret = None
           ELSE LET layer == inner[Lowest(Holders(inner, key))]
                IN  /\ ret.tag = "Some"
                    /\ ret.val[1] \in DOMAIN layer
                    /\ Borrow(ret.val[1]) = key
                    /\ ret.val[2] = layer[ret.val[1]]
                    /\ get(inner, key) = Some(ret.val[2])
        /\ (ret = None) <=> (get(inner, key) = None)
        /\ (ret = None) <=> ~contains_key(inner, key)

\* get_key_value(k) on three layers where the second and the third hold k
\* with different values and the first does not.
C7_Witness ==
    /\ op = "get_key_value"
    /\ Len(inner) = 3
    /\ Holders(inner, key) = {2, 3}
    /\ LayerValue(inner[2], key) # LayerValue(inner[3], key)
    /\ ret = Some(<<Owned(key), LayerValue(inner[2], key)>>)

\* C8, as the spec states it: the chain offers insert_map(i, m) for every
\* 0 <= i <= length, that is, from every chain with room for a layer some
\* operation leaves m at position i with the layers from i on shifted down.
C8_InsertMapOffered ==
    (pc = "ready" /\ Len(inner) < MaxLayers) =>
        \A i \in 0..Len(inner) : \A m \in Maps :
            ENABLED (Mutators /\ inner' = InsertAt(inner, i, m))

\* C8, amended: the insertion of one layer the chain offers is push_map(m),
\* the insertion at i = length: the layers before i are unchanged, m is last
\* and the length grows by one.
C8_InsertOnlyAtEnd ==
    /\ (pc = "ready" /\ Len(inner) < MaxLayers) =>
          \A m \in Maps :
              ENABLED (PushMap /\ inner' = InsertAt(inner, Len(inner), m))
    /\ op = "push_map" =>
          /\ inner = InsertAt(before, Len(before), arg[1])
          /\ Len(inner) = Len(before) + 1

\* push_map(m) on two layers, where inserting m at 0 or at 1 would have left
\* another chain.
C8_Witness ==
    /\ op = "push_map"
    /\ Len(before) = 2
    /\ inner # InsertAt(before, 0, arg[1])
    /\ inner # InsertAt(before, 1, arg[1])
    /\ inner = InsertAt(before, 2, arg[1])

\* C9, as the spec states it: after push_map(m1); push_map(m2) on a chain C,
\* with m1 and m2 sharing a key, some operation tells the chain from the one
\* push_map(m2); push_map(m1) leaves on C.
C9_OrderAlwaysObservable ==
    (op = "push_map" /\ Len(before) >= 1) =>
        LET C  == SubSeq(before, 1, Len(before) - 1)
            m1 == before[Len(before)]
            m2 == arg[1]
        IN  SharesKey(m1, m2) =>
                ObservablyDifferent(inner, push_map(push_map(C, m2), m1))

\* C9, amended: with m1 and m2 sharing a key, the two orders are told apart
\* exactly when m1 and m2 are different maps (the chains are then unequal),
\* and a lookup tells them apart exactly when a shared key has different
\* values in m1 and m2 and no layer of C holds it.
C9_OrderObservableWhenDistinct ==
    (op = "push_map" /\ Len(before) >= 1) =>
        LET C  == SubSeq(before, 1, Len(before) - 1)
            m1 == before[Len(before)]
            m2 == arg[1]
            other == push_map(push_map(C, m2), m1)
        IN  SharesKey(m1, m2) =>
                /\ ObservablyDifferent(inner, other) <=> (m1 # m2)
                /\ (m1 # m2) => ~eq(inner, other)
                /\ LookupsDiffer(inner, other) <=>
                      \E k \in Keys :
                          /\ LayerHas(m1, k) /\ LayerHas(m2, k)
                          /\ LayerValue(m1, k) # LayerValue(m2, k)
                          /\ Holders(C, k) = {}

\* push_map(m2) after m1 on a layer C, where m1 and m2 hold a key C lacks
\* with different values: get tells the two orders apart.
C9_Witness ==
    /\ op = "push_map"
    /\ Len(before) = 2
    /\ \E k \in Keys :
          /\ Holders(inner, k) = {2, 3}
          /\ LayerValue(inner[2], k) # LayerValue(inner[3], k)
          /\ get(inner, k) # get(push_map(push_map(<<before[1]>>, arg[1]), before[2]), k)

\* C10: no step of a constructed chain changes what get(k) returns once it
\* returns a value, or makes contains_key(k) false once it is true; the
\* layers a step finds stay where they are, and their number never decreases.
C10_LookupsStable ==
    [][pc = "ready" =>
          /\ Len(inner') >= Len(inner)
          /\ \A i \in 1..Len(inner) : inner'[i] = inner[i]
          /\ \A k \in Keys :
                /\ get(inner, k).tag = "Some" => get(inner', k) = get(inner, k)
                /\ contains_key(inner, k) => contains_key(inner', k)]_vars

\* extend with two maps that hold a key the chain already holds, with other
\* values: get still returns the chain's former value.
C10_Witness ==
    /\ op = "extend"
    /\ Len(before) = 1
    /\ Len(arg) = 2
    /\ \E k \in Keys :
          /\ Holders(inner, k) = {1, 2, 3}
          /\ LayerValue(inner[1], k) # LayerValue(inner[2], k)
          /\ LayerValue(inner[1], k) # LayerValue(inner[3], k)
          /\ get(inner, k) = get(before, k)

====
